---- MODULE Spec2Model ----
(***************************************************************************)
(* Model of the reservation API of src/main.py: the reservation sheet (a   *)
(* header row and data rows of text cells), create_reservation, and        *)
(* cancel_reservation split at its four calls to the store (header read,   *)
(* full read, status write, cancelled_at write), each of which may fail.   *)
(* A text value is a sequence of one-character strings, so that strip,     *)
(* upper, the phone normaliser and the timestamp codec are computed the    *)
(* way the code computes them.                                             *)
(***************************************************************************)
EXTENDS Integers, Sequences, FiniteSets, TLC

(***************************************************************************)
(* Characters and the string helpers of Python the code relies on.         *)
(***************************************************************************)
Digits == <<"0", "1", "2", "3", "4", "5", "6", "7", "8", "9">>

LowerLetters == <<"a", "b", "c", "d", "e", "f", "g", "h", "i", "j", "k", "l", "m",
                  "n", "o", "p", "q", "r", "s", "t", "u", "v", "w", "x", "y", "z">>

UpperLetters == <<"A", "B", "C", "D", "E", "F", "G", "H", "I", "J", "K", "L", "M",
                  "N", "O", "P", "Q", "R", "S", "T", "U", "V", "W", "X", "Y", "Z">>

Whitespace == {" ", "\t", "\n", "\r"}

DigitSet == {Digits[i] : i \in DOMAIN Digits}

IsDigit(c) == c \in DigitSet

DigitVal(c) == (CHOOSE i \in DOMAIN Digits : Digits[i] = c) - 1

SetMin(S) == CHOOSE x \in S : \A y \in S : x <= y

SetMax(S) == CHOOSE x \in S : \A y \in S : x >= y

\* str.strip(): the text without its leading and trailing whitespace.
RECURSIVE Strip(_)
Strip(s) ==
    IF s = <<>> THEN s
    ELSE IF s[1] \in Whitespace THEN Strip(Tail(s))
    ELSE IF s[Len(s)] \in Whitespace THEN Strip(SubSeq(s, 1, Len(s) - 1))
    ELSE s

LowerSet == {LowerLetters[i] : i \in DOMAIN LowerLetters}

UpperChar(c) ==
    IF c \in LowerSet
    THEN UpperLetters[CHOOSE i \in DOMAIN LowerLetters : LowerLetters[i] = c]
    ELSE c

\* str.upper()
Upper(s) == [i \in DOMAIN s |-> UpperChar(s[i])]

\* The decimal value of the digits s[i] .. s[i+n-1].
RECURSIVE Num(_, _, _)
Num(s, i, n) ==
    IF n = 0 THEN 0 ELSE Num(s, i, n - 1) * 10 + DigitVal(s[i + n - 1])

AllDigits(s) == \A i \in DOMAIN s : IsDigit(s[i])

\* n rendered in w decimal digits, zero padded (strftime's %Y, %m, %d, %H, %M).
RECURSIVE Pad(_, _)
Pad(n, w) ==
    IF w = 0 THEN <<>> ELSE Append(Pad(n \div 10, w - 1), Digits[(n % 10) + 1])

(***************************************************************************)
(* Timestamp codec.                                                        *)
(***************************************************************************)
DaysInMonth(y, m) ==
    IF m \in {4, 6, 9, 11} THEN 30
    ELSE IF m = 2
         THEN (IF (y % 4 = 0 /\ y % 100 # 0) \/ y % 400 = 0 THEN 29 ELSE 28)
         ELSE 31

\* An order-preserving number for a local date and time: two timestamps
\* compare as their keys do (all datetimes of the code carry the same zone).
TimeKey(y, m, d, hh, mi) == ((((y * 12 + (m - 1)) * 31 + (d - 1)) * 24 + hh) * 60) + mi

Fail == [ok |-> FALSE, y |-> 0, m |-> 0, d |-> 0]

\* strptime's "%Y-%m-%d": four digits, "-", a month of one or two digits,
\* "-", a day of one or two digits (or a blank and one digit), and the
\* date must exist (datetime rejects year 0 and day 30 of February).
ParseDate(s) ==
    LET n == Len(s)
        ok(lm, sp, ld) ==
            /\ n = 4 + 1 + lm + 1 + sp + ld
            /\ AllDigits(SubSeq(s, 1, 4))
            /\ s[5] = "-"
            /\ AllDigits(SubSeq(s, 6, 5 + lm))
            /\ s[6 + lm] = "-"
            /\ (sp = 1 => s[7 + lm] = " " /\ ld = 1)
            /\ AllDigits(SubSeq(s, 7 + lm + sp, n))
            /\ (lm = 1 => Num(s, 6, 1) >= 1)
            /\ (sp = 1 \/ ld = 1 => Num(s, 7 + lm + sp, 1) >= 1)
        fits == {t \in {1, 2} \X {0, 1} \X {1, 2} : ok(t[1], t[2], t[3])}
    IN  IF fits = {} THEN Fail
        ELSE LET t == CHOOSE t \in fits : TRUE
                 y == Num(s, 1, 4)
                 m == Num(s, 6, t[1])
                 d == Num(s, 7 + t[1] + t[2], t[3])
             IN  IF y >= 1 /\ m \in 1..12 /\ d >= 1 /\ d <= DaysInMonth(y, m)
                 THEN [ok |-> TRUE, y |-> y, m |-> m, d |-> d]
                 ELSE Fail

FailTime == [ok |-> FALSE, hh |-> 0, mi |-> 0]

\* strptime's "%H:%M": an hour of one or two digits (0..23), ":", a minute
\* of one or two digits (0..59).
ParseTime(s) ==
    LET n == Len(s)
        ok(lh, lm) ==
            /\ n = lh + 1 + lm
            /\ AllDigits(SubSeq(s, 1, lh))
            /\ s[lh + 1] = ":"
            /\ AllDigits(SubSeq(s, lh + 2, n))
        fits == {t \in {1, 2} \X {1, 2} : ok(t[1], t[2])}
    IN  IF fits = {} THEN FailTime
        ELSE LET t == CHOOSE t \in fits : TRUE
                 hh == Num(s, 1, t[1])
                 mi == Num(s, t[1] + 2, t[2])
             IN  IF hh <= 23 /\ mi <= 59
                 THEN [ok |-> TRUE, hh |-> hh, mi |-> mi]
                 ELSE FailTime

\* datetime(1970, 1, 1, tzinfo=KST), the value returned on a parse failure.
EpochKey == TimeKey(1970, 1, 1, 0, 0)

\* strptime's "%Y-%m-%d %H:%M": a date, one or more whitespace characters,
\* a time; the pair [ok, key].
StrptimeCreatedAt(v) ==
    LET n == Len(v)
        cuts == {c \in (1..n) \X (1..n) :
                    /\ c[1] < c[2]
                    /\ \A i \in (c[1] + 1)..c[2] : v[i] \in Whitespace
                    /\ v[c[1]] \notin Whitespace
                    /\ c[2] < n
                    /\ v[c[2] + 1] \notin Whitespace
                    /\ ParseDate(SubSeq(v, 1, c[1])).ok
                    /\ ParseTime(SubSeq(v, c[2] + 1, n)).ok}
    IN  IF cuts = {} THEN [ok |-> FALSE, key |-> 0]
        ELSE LET c == CHOOSE c \in cuts : TRUE
                 d == ParseDate(SubSeq(v, 1, c[1]))
                 t == ParseTime(SubSeq(v, c[2] + 1, n))
             IN  [ok |-> TRUE, key |-> TimeKey(d.y, d.m, d.d, t.hh, t.mi)]

parse_created_at(v) ==
    IF StrptimeCreatedAt(v).ok THEN StrptimeCreatedAt(v).key ELSE EpochKey

\* The phone only trimmed, its formatting kept.
norm_phone_strip_only(v) == Strip(v)

\* re.sub(r"\D", "", (v or "").strip())
norm_phone(v) == SelectSeq(Strip(v), IsDigit)


(***************************************************************************)
(* Text constants.                                                         *)
(***************************************************************************)
cDate == <<"d", "a", "t", "e">>
cTime == <<"t", "i", "m", "e">>
cPartySize == <<"p", "a", "r", "t", "y", "_", "s", "i", "z", "e">>
cName == <<"n", "a", "m", "e">>
cPhone == <<"p", "h", "o", "n", "e">>
cNotes == <<"n", "o", "t", "e", "s">>
cCreatedAt == <<"c", "r", "e", "a", "t", "e", "d", "_", "a", "t">>
cStatus == <<"s", "t", "a", "t", "u", "s">>
cCancelledAt == <<"c", "a", "n", "c", "e", "l", "l", "e", "d", "_", "a", "t">>

CONFIRMED == <<"C", "O", "N", "F", "I", "R", "M", "E", "D">>
CANCELLED == <<"C", "A", "N", "C", "E", "L", "L", "E", "D">>
Empty == <<>>

\* Request and row values the model draws from.
D1 == <<"2", "0", "2", "5", "-", "1", "1", "-", "2", "5">>
T1 == <<"1", "9", ":", "0", "0">>
T2 == <<"2", "0", ":", "0", "0">>
Kim == <<"K", "i", "m">>
Lee == <<"L", "e", "e">>
Park == <<"P", "a", "r", "k">>
KimPadded == <<" ", "K", "i", "m", " ">>
Blank == <<" ">>
PhoneDashed == <<"0", "1", "0", "-", "1", "2">>
PhonePlain == <<"0", "1", "0", "1", "2">>
PhoneSpaced == <<"0", "1", "0", " ", "1", "2">>
PhoneOther == <<"0", "1", "0", "9", "9">>
PhoneShort == <<"0", "1", "0", "1">>
Two == <<"2">>


\* created_at values of rows that were in the sheet before the service started.
TsOld == <<"2", "0", "2", "5", "-", "1", "1", "-", "2", "0", " ", "1", "0", ":", "0", "0">>
TsOlder == <<"2", "0", "2", "5", "-", "1", "1", "-", "1", "9", " ", "0", "8", ":", "3", "0">>
Ts1969 == <<"1", "9", "6", "9", "-", "1", "2", "-", "3", "1", " ", "2", "3", ":", "5", "9">>
TsBad == <<"n", "/", "a">>
TsEpoch == <<"1", "9", "7", "0", "-", "0", "1", "-", "0", "1", " ", "0", "0", ":", "0", "0">>

(***************************************************************************)
(* Bounds of the model.                                                    *)
(***************************************************************************)
\* create_reservation is enabled while the sheet holds fewer data rows.
MaxRows == 2
\* The clock advances at most this many minutes.
MaxTicks == 1

\* A phone cell of the sheet holds at most this many characters.
MaxStoredPhoneLen == 3
\* A phone of a cancel request holds PhoneMinLen to this many characters.
MaxRequestPhoneLen == 5

\* Field(..., min_length=5, max_length=30) of phone, max_length of name and
\* notes, ge/le of party_size.
PhoneMinLen == 5
PhoneMaxLen == 30
NameMaxLen == 100
NotesMaxLen == 500
PartyMin == 1
PartyMax == 50

(***************************************************************************)
(* The store: worksheet.row_values, get_all_values, update_cell and        *)
(* append_row. Rows and columns are 1-based; row 1 is the header. Text is  *)
(* stored as given.                                                        *)
(***************************************************************************)
\* The sheet rows below the header.
DataRows(sh) == 2..Len(sh)

\* A cell beyond the row's end read as the row's last cell.
Cell_last(r, c) ==
    IF c >= 1 /\ c <= Len(r) THEN r[c] ELSE IF Len(r) = 0 THEN Empty ELSE r[Len(r)]

\* The cell of row r in column c; a cell beyond the row's end reads "".
Cell(r, c) == IF c >= 1 /\ c <= Len(r) THEN r[c] ELSE Empty

\* update_cell taking the column one to the right.
update_cell_next_col(sh, row, col, value) ==
    LET old == sh[row]
        width == IF col + 1 > Len(old) THEN col + 1 ELSE Len(old)
    IN  [sh EXCEPT ![row] = [k \in 1..width |-> IF k = col + 1 THEN value ELSE Cell(old, k)]]

\* worksheet.update_cell(row, col, value)
update_cell(sh, row, col, value) ==
    LET old == sh[row]
        width == IF col > Len(old) THEN col ELSE Len(old)
    IN  [sh EXCEPT ![row] = [c \in 1..width |-> IF c = col THEN value ELSE Cell(old, c)]]

\* worksheet.append_row(row)
append_row(sh, row) == Append(sh, row)

required_cols == <<cDate, cTime, cName, cPhone, cCreatedAt, cStatus, cCancelledAt>>

\* A header map that assumes the fixed column order instead of reading it.
header_map_fixed(header) ==
    [nm \in {cDate, cTime, cPartySize, cName, cPhone, cNotes, cCreatedAt, cStatus, cCancelledAt} |->
        CHOOSE i \in 1..9 :
            <<cDate, cTime, cPartySize, cName, cPhone, cNotes, cCreatedAt, cStatus, cCancelledAt>>[i] = nm]

\* _header_map(): stripped non-blank header text -> 1-based column; of two
\* columns with the same text the dict keeps the later one.
header_map(header) ==
    LET names == {Strip(header[i]) : i \in DOMAIN header} \ {Empty}
    IN  [nm \in names |-> SetMax({i \in DOMAIN header : Strip(header[i]) = nm})]

\* The first required column the header lacks, as the loop of
\* cancel_reservation finds it; 0 when none is missing.
FirstMissing(h) ==
    LET miss == {k \in DOMAIN required_cols : required_cols[k] \notin DOMAIN h}
    IN  IF miss = {} THEN 0 ELSE SetMin(miss)

NoCols == [date |-> 0, time |-> 0, name |-> 0, phone |-> 0,
           created_at |-> 0, status |-> 0, cancelled_at |-> 0]

\* col_date .. col_cancelled_at
Columns(h) == [date |-> h[cDate], time |-> h[cTime], name |-> h[cName],
               phone |-> h[cPhone], created_at |-> h[cCreatedAt],
               status |-> h[cStatus], cancelled_at |-> h[cCancelledAt]]

(***************************************************************************)
(* The clock and _now_kst_str.                                             *)
(***************************************************************************)
ClockStart == [y |-> 2025, m |-> 11, d |-> 21, hh |-> 9, mi |-> 59]

\* One minute later (the model's clock stays within the day).
TickClock(c) ==
    IF c.mi = 59 THEN [c EXCEPT !.hh = c.hh + 1, !.mi = 0]
    ELSE [c EXCEPT !.mi = c.mi + 1]

Elapsed(c) == (c.hh * 60 + c.mi) - (ClockStart.hh * 60 + ClockStart.mi)

\* datetime.now(KST).strftime("%Y-%m-%d %H:%M")
now_kst_str(c) ==
    Pad(c.y, 4) \o <<"-">> \o Pad(c.m, 2) \o <<"-">> \o Pad(c.d, 2) \o <<" ">>
        \o Pad(c.hh, 2) \o <<":">> \o Pad(c.mi, 2)

\* str(n) of a positive integer, as the sheet shows a number cell.
RECURSIVE Decimal(_)
Decimal(n) == IF n < 10 THEN <<Digits[n + 1]>> ELSE Append(Decimal(n \div 10), Digits[(n % 10) + 1])


(***************************************************************************)
(* Requests and responses.                                                 *)
(***************************************************************************)
\* Optional[str]: None, or a text.
None == [some |-> FALSE, val |-> Empty]
Some(v) == [some |-> TRUE, val |-> v]

\* CancelRequest's validators: a request that fails them is answered 422
\* and never reaches cancel_reservation.
ValidCancelRequest(q) ==
    /\ ParseDate(q.date).ok
    /\ ParseTime(q.time).ok
    /\ Len(q.phone) >= PhoneMinLen /\ Len(q.phone) <= PhoneMaxLen
    /\ (q.name.some => Len(q.name.val) <= NameMaxLen)

\* Reservation's validators.
ValidReservation(res) ==
    /\ ParseDate(res.date).ok
    /\ ParseTime(res.time).ok
    /\ res.party_size >= PartyMin /\ res.party_size <= PartyMax
    /\ Len(res.name) >= 1 /\ Len(res.name) <= NameMaxLen
    /\ Len(res.phone) >= PhoneMinLen /\ Len(res.phone) <= PhoneMaxLen
    /\ (res.notes.some => Len(res.notes.val) <= NotesMaxLen)

\* The request bodies the model posts. AcceptedCancelRequests and
\* AcceptedReservations are those that pass validation and reach the handlers.
CancelRequests ==
    [date : {D1}, time : {T1}, phone : {PhoneSpaced, PhoneOther, PhoneShort},
     name : {None, Some(Blank), Some(KimPadded), Some(Park)}]

Reservations ==
    [date : {D1}, time : {T1}, party_size : {0, 2}, name : {Kim, Lee},
     phone : {PhoneDashed}, notes : {None}]

AcceptedCancelRequests == {q \in CancelRequests : ValidCancelRequest(q)}

AcceptedReservations == {res \in Reservations : ValidReservation(res)}

NoRequest == [date |-> Empty, time |-> Empty, phone |-> Empty, name |-> None]

\* ApiResponse and HTTPException as one record: code is the HTTP status,
\* status is "ok", "error" or, for an HTTPException, "fault"; an absent
\* created_at or cancelled_at (None) is the empty text.
NoResponse == [code |-> 0, status |-> "", message |-> "", missing |-> Empty,
               created_at |-> Empty, cancelled_at |-> Empty]

ApiResponse(status, message, created, cancelled) ==
    [code |-> 200, status |-> status, message |-> message, missing |-> Empty,
     created_at |-> created, cancelled_at |-> cancelled]

HTTPException(code, detail, col) ==
    [code |-> code, status |-> "fault", message |-> detail, missing |-> col,
     created_at |-> Empty, cancelled_at |-> Empty]

(***************************************************************************)
(* Candidate matching and disambiguation of cancel_reservation.            *)
(***************************************************************************)
\* The primary filter without the status test.
IsCandidate_no_status(vals, c, q, i) ==
    LET r == vals[i]
    IN  /\ Strip(Cell(r, c.date)) = Strip(q.date)
        /\ Strip(Cell(r, c.time)) = Strip(q.time)
        /\ norm_phone(Cell(r, c.phone)) = norm_phone(q.phone)

\* The primary filter on sheet row i of the values read.
IsCandidate(vals, c, q, i) ==
    LET r == vals[i]
    IN  /\ Upper(Strip(Cell(r, c.status))) = CONFIRMED
        /\ Strip(Cell(r, c.date)) = Strip(q.date)
        /\ Strip(Cell(r, c.time)) = Strip(q.time)
        /\ norm_phone(Cell(r, c.phone)) = norm_phone(q.phone)

\* The candidate with the row counted from 1 instead of 2.
Candidate_from_one(vals, c, i) ==
    LET r == vals[i]
    IN  [row |-> i - 1,
         name |-> Strip(Cell(r, c.name)),
         created_at_str |-> Strip(Cell(r, c.created_at)),
         created_at |-> parse_created_at(Strip(Cell(r, c.created_at)))]

\* The dict appended for a row that passes the filter.
Candidate(vals, c, i) ==
    LET r == vals[i]
    IN  [row |-> i,
         name |-> Strip(Cell(r, c.name)),
         created_at_str |-> Strip(Cell(r, c.created_at)),
         created_at |-> parse_created_at(Strip(Cell(r, c.created_at)))]

\* candidates without the primary filter: every data row.
Candidates_unfiltered(vals, c, q) ==
    [k \in 1..(Len(vals) - 1) |-> Candidate(vals, c, k + 1)]

\* candidates, in scan order (sheet rows 2, 3, ...).
Candidates(vals, c, q) ==
    LET idx == [k \in 1..(Len(vals) - 1) |-> k + 1]
        hit == SelectSeq(idx, LAMBDA i : IsCandidate(vals, c, q, i))
    IN  [k \in DOMAIN hit |-> Candidate(vals, c, hit[k])]

\* A sort that moves a row before the rows of equal created_at scanned
\* earlier.
SortsBefore_later_row_first(x, y) == x.created_at > y.created_at

\* The sort without reverse=True: oldest first.
SortsBefore_oldest_first(x, y) == x.created_at <= y.created_at

\* Whether x is placed before y by the sort on created_at: newest first.
SortsBefore(x, y) == x.created_at >= y.created_at

\* list.sort(key=created_at, reverse=True): a stable sort, rows with equal
\* keys keep their scan order.
RECURSIVE SortNewestFirst(_)
SortNewestFirst(s) ==
    IF s = <<>> THEN <<>>
    ELSE LET x == s[Len(s)]
             done == SortNewestFirst(SubSeq(s, 1, Len(s) - 1))
             k == Cardinality({j \in DOMAIN done : SortsBefore(done[j], x)})
         IN  SubSeq(done, 1, k) \o <<x>> \o SubSeq(done, k + 1, Len(done))

\* name_q without the strip.
NameQ_unstripped(q) == IF q.name.some THEN q.name.val ELSE Empty

\* name_q = (req.name or "").strip()
NameQ(q) == IF q.name.some THEN Strip(q.name.val) ELSE Empty

\* narrowed = [c for c in candidates if c["name"] == name_q]
Narrowed(cands, q) == SelectSeq(cands, LAMBDA c : c.name = NameQ(q))

NoTarget == [row |-> 0, name |-> Empty, created_at_str |-> Empty, created_at |-> 0]

\* The disambiguation guessing on a name mismatch: the first candidate.
Resolve_mismatch_takes_first(vals, c, q) ==
    IF Len(vals) < 2 THEN [error |-> "no reservation data", target |-> NoTarget]
    ELSE LET cands == Candidates(vals, c, q)
             narrowed == Narrowed(cands, q)
         IN  IF cands = <<>>
             THEN [error |-> "matching CONFIRMED reservation not found", target |-> NoTarget]
             ELSE IF Len(cands) = 1
             THEN [error |-> "", target |-> cands[1]]
             ELSE IF NameQ(q) = Empty
             THEN [error |-> "multiple matches found; name required", target |-> NoTarget]
             ELSE IF narrowed = <<>>
             THEN [error |-> "", target |-> cands[1]]
             ELSE [error |-> "", target |-> SortNewestFirst(narrowed)[1]]

\* The disambiguation comparing the name even for a single candidate.
Resolve_always_by_name(vals, c, q) ==
    IF Len(vals) < 2 THEN [error |-> "no reservation data", target |-> NoTarget]
    ELSE LET cands == Candidates(vals, c, q)
             narrowed == Narrowed(cands, q)
         IN  IF cands = <<>>
             THEN [error |-> "matching CONFIRMED reservation not found", target |-> NoTarget]
             ELSE IF NameQ(q) = Empty
             THEN [error |-> "multiple matches found; name required", target |-> NoTarget]
             ELSE IF narrowed = <<>>
             THEN [error |-> "multiple matches found; name mismatch", target |-> NoTarget]
             ELSE [error |-> "", target |-> SortNewestFirst(narrowed)[1]]

\* The outcome of lines 294-352: an error message, or the target row.
Resolve(vals, c, q) ==
    IF Len(vals) < 2 THEN [error |-> "no reservation data", target |-> NoTarget]
    ELSE LET cands == Candidates(vals, c, q)
             narrowed == Narrowed(cands, q)
         IN  IF cands = <<>>
             THEN [error |-> "matching CONFIRMED reservation not found", target |-> NoTarget]
             ELSE IF Len(cands) = 1
             THEN [error |-> "", target |-> cands[1]]
             ELSE IF NameQ(q) = Empty
             THEN [error |-> "multiple matches found; name required", target |-> NoTarget]
             ELSE IF narrowed = <<>>
             THEN [error |-> "multiple matches found; name mismatch", target |-> NoTarget]
             ELSE [error |-> "", target |-> SortNewestFirst(narrowed)[1]]


(***************************************************************************)
(* State.                                                                  *)
(***************************************************************************)
VARIABLES
    sheet,          \* the worksheet: row 1 the header, then the data rows
    clock,          \* the wall clock that datetime.now(KST) reads
    pc,             \* per request slot: where its cancel_reservation call is
    req,            \* the CancelRequest of the call
    cols,           \* col_date .. col_cancelled_at of the call
    values,         \* the rows the call read with get_all_values()
    target,         \* the candidate the call resolved to
    cancelled_at,   \* the timestamp the call took on line 354
    resp,           \* the response of the call, once it has one
    createResp,     \* the response of the last create_reservation call
    appended,       \* history: the rows create_reservation appended
    cancelWrites,   \* history: the cells cancel_reservation wrote
    okLog,          \* history: the cancel calls that answered ok
    okCount         \* history: how many cancel calls answered ok

vars == <<sheet, clock, pc, req, cols, values, target, cancelled_at, resp,
          createResp, appended, cancelWrites, okLog, okCount>>

\* The request slots; the calls of a sequential execution all use SerialProcs.
Procs == {"a", "b"}
SerialProcs == {"a"}

HeaderCanonical ==
    <<cDate, cTime, cPartySize, cName, cPhone, cNotes, cCreatedAt, cStatus, cCancelledAt>>

\* A stored row in the column order of HeaderCanonical.
Row(d, t, nm, ph, created, st, cancelled) ==
    <<d, t, Two, nm, ph, Empty, created, st, cancelled>>

\* Data rows present when the service starts: none; two duplicates, one with
\* an unparseable created_at and one created before 1970; one row whose
\* status was typed in lower case; one cancelled row at another time.
LegacyRows ==
    { <<>>,
      << Row(D1, T1, Kim, PhoneDashed, TsBad, CONFIRMED, Empty),
         Row(D1, T1, Kim, PhoneDashed, Ts1969, CONFIRMED, Empty) >>,
      << Row(D1, T1, Kim, PhonePlain, TsOld, <<"c", "o", "n", "f", "i", "r", "m", "e", "d">>, Empty) >>,
      << Row(D1, T2, Lee, PhoneDashed, TsOlder, CANCELLED, TsOld) >> }

InitLocals ==
    /\ clock = ClockStart
    /\ pc = [p \in Procs |-> "idle"]
    /\ req = [p \in Procs |-> NoRequest]
    /\ cols = [p \in Procs |-> NoCols]
    /\ values = [p \in Procs |-> <<>>]
    /\ target = [p \in Procs |-> NoTarget]
    /\ cancelled_at = [p \in Procs |-> Empty]
    /\ resp = [p \in Procs |-> NoResponse]
    /\ createResp = NoResponse
    /\ appended = {}
    /\ cancelWrites = {}
    /\ okLog = {}
    /\ okCount = 0

Init ==
    /\ sheet \in {<<HeaderCanonical>> \o rows : rows \in LegacyRows}
    /\ InitLocals

(***************************************************************************)
(* create_reservation.                                                     *)
(***************************************************************************)
\* The row of lines 247-257.
NewRow(res, created) ==
    << res.date, res.time, Decimal(res.party_size), res.name, res.phone,
       (IF res.notes.some THEN res.notes.val ELSE Empty), created, CONFIRMED, Empty >>

create_reservation(res) ==
    /\ Len(sheet) - 1 < MaxRows
    /\ sheet' = append_row(sheet, NewRow(res, now_kst_str(clock)))
    /\ createResp' = ApiResponse("ok", "reservation created", now_kst_str(clock), Empty)
    /\ appended' = appended \cup
            {[row |-> Len(sheet) + 1, date |-> res.date, time |-> res.time,
              name |-> res.name, phone |-> res.phone, created_at |-> now_kst_str(clock)]}
    /\ UNCHANGED <<clock, pc, req, cols, values, target, cancelled_at, resp,
                   cancelWrites, okLog, okCount>>

\* append_row raises: 502, nothing stored.
create_reservation_fail(res) ==
    /\ createResp' = HTTPException(502, "Failed to write to Google Sheet", Empty)
    /\ UNCHANGED <<sheet, clock, pc, req, cols, values, target, cancelled_at, resp,
                   appended, cancelWrites, okLog, okCount>>

(***************************************************************************)
(* cancel_reservation, one action per call to the store.                   *)
(***************************************************************************)
Finish(p, r) ==
    /\ resp' = [resp EXCEPT ![p] = r]
    /\ pc' = [pc EXCEPT ![p] = "done"]

\* Lines 273-285: _header_map() and the required columns.
cancel_read_header(p, q) ==
    /\ pc[p] = "idle"
    /\ req' = [req EXCEPT ![p] = q]
    /\ LET h == header_map(sheet[1])
           k == FirstMissing(h)
       IN  IF k # 0
           THEN /\ Finish(p, HTTPException(500, "Missing column in sheet", required_cols[k]))
                /\ UNCHANGED cols
           ELSE /\ cols' = [cols EXCEPT ![p] = Columns(h)]
                /\ pc' = [pc EXCEPT ![p] = "read"]
                /\ UNCHANGED resp
    /\ UNCHANGED <<sheet, clock, values, target, cancelled_at, createResp,
                   appended, cancelWrites, okLog, okCount>>

\* worksheet.row_values(1) raises: nothing catches it, the server answers 500.
cancel_read_header_fail(p, q) ==
    /\ pc[p] = "idle"
    /\ req' = [req EXCEPT ![p] = q]
    /\ Finish(p, HTTPException(500, "Internal Server Error", Empty))
    /\ UNCHANGED <<sheet, clock, cols, values, target, cancelled_at, createResp,
                   appended, cancelWrites, okLog, okCount>>

\* Lines 288-354: get_all_values(), the candidate scan, the disambiguation
\* and the cancellation timestamp.
cancel_read_rows(p) ==
    /\ pc[p] = "read"
    /\ values' = [values EXCEPT ![p] = sheet]
    /\ LET res == Resolve(sheet, cols[p], req[p])
       IN  IF res.error # ""
           THEN /\ Finish(p, ApiResponse("error", res.error, Empty, Empty))
                /\ UNCHANGED <<target, cancelled_at>>
           ELSE /\ target' = [target EXCEPT ![p] = res.target]
                /\ cancelled_at' = [cancelled_at EXCEPT ![p] = now_kst_str(clock)]
                /\ pc' = [pc EXCEPT ![p] = "write_status"]
                /\ UNCHANGED resp
    /\ UNCHANGED <<sheet, clock, req, cols, createResp, appended, cancelWrites, okLog, okCount>>

cancel_read_rows_fail(p) ==
    /\ pc[p] = "read"
    /\ Finish(p, HTTPException(502, "Failed to read Google Sheet", Empty))
    /\ UNCHANGED <<sheet, clock, req, cols, values, target, cancelled_at, createResp,
                   appended, cancelWrites, okLog, okCount>>

\* The first write sent as a write-back of every row the call read, the
\* target row with its new status.
cancel_write_status_writes_back_rows(p) ==
    /\ pc[p] = "write_status"
    /\ sheet' = [i \in DOMAIN sheet |->
                    IF i = target[p].row
                    THEN update_cell(values[p], i, cols[p].status, CANCELLED)[i]
                    ELSE IF i \in DataRows(values[p]) THEN values[p][i]
                    ELSE sheet[i]]
    /\ cancelWrites' = cancelWrites \cup {[row |-> target[p].row, col |-> "status"]}
    /\ pc' = [pc EXCEPT ![p] = "write_cancelled_at"]
    /\ UNCHANGED <<clock, req, cols, values, target, cancelled_at, resp, createResp,
                   appended, okLog, okCount>>

\* The first write aimed at the cancelled_at column.
cancel_write_status_wrong_col(p) ==
    /\ pc[p] = "write_status"
    /\ sheet' = update_cell(sheet, target[p].row, cols[p].cancelled_at, CANCELLED)
    /\ cancelWrites' = cancelWrites \cup {[row |-> target[p].row, col |-> "cancelled_at"]}
    /\ pc' = [pc EXCEPT ![p] = "write_cancelled_at"]
    /\ UNCHANGED <<clock, req, cols, values, target, cancelled_at, resp, createResp,
                   appended, okLog, okCount>>

\* Line 357.
cancel_write_status(p) ==
    /\ pc[p] = "write_status"
    /\ sheet' = update_cell(sheet, target[p].row, cols[p].status, CANCELLED)
    /\ cancelWrites' = cancelWrites \cup {[row |-> target[p].row, col |-> "status"]}
    /\ pc' = [pc EXCEPT ![p] = "write_cancelled_at"]
    /\ UNCHANGED <<clock, req, cols, values, target, cancelled_at, resp, createResp,
                   appended, okLog, okCount>>

cancel_write_status_fail(p) ==
    /\ pc[p] = "write_status"
    /\ Finish(p, HTTPException(502, "Failed to update Google Sheet", Empty))
    /\ UNCHANGED <<sheet, clock, req, cols, values, target, cancelled_at, createResp,
                   appended, cancelWrites, okLog, okCount>>

\* The response of lines 368-373.
CancelOk(t, ts) == ApiResponse("ok", "reservation cancelled", t.created_at_str, ts)

\* The second write taking the time when it is sent, not the timestamp of
\* line 354.
cancel_write_cancelled_at_late_clock(p) ==
    /\ pc[p] = "write_cancelled_at"
    /\ sheet' = update_cell(sheet, target[p].row, cols[p].cancelled_at, now_kst_str(clock))
    /\ cancelWrites' = cancelWrites \cup {[row |-> target[p].row, col |-> "cancelled_at"]}
    /\ Finish(p, CancelOk(target[p], cancelled_at[p]))
    /\ okLog' = okLog \cup
            {[row |-> target[p].row, date |-> Strip(req[p].date), time |-> Strip(req[p].time),
              phone |-> norm_phone(req[p].phone), cancelled_at |-> cancelled_at[p]]}
    /\ okCount' = okCount + 1
    /\ UNCHANGED <<clock, req, cols, values, target, cancelled_at, createResp, appended>>

\* Line 358 and the ok response.
cancel_write_cancelled_at(p) ==
    /\ pc[p] = "write_cancelled_at"
    /\ sheet' = update_cell(sheet, target[p].row, cols[p].cancelled_at, cancelled_at[p])
    /\ cancelWrites' = cancelWrites \cup {[row |-> target[p].row, col |-> "cancelled_at"]}
    /\ Finish(p, CancelOk(target[p], cancelled_at[p]))
    /\ okLog' = okLog \cup
            {[row |-> target[p].row, date |-> Strip(req[p].date), time |-> Strip(req[p].time),
              phone |-> norm_phone(req[p].phone), cancelled_at |-> cancelled_at[p]]}
    /\ okCount' = okCount + 1
    /\ UNCHANGED <<clock, req, cols, values, target, cancelled_at, createResp, appended>>

\* The failure of the second write swallowed: the call answers ok.
cancel_write_cancelled_at_fail_swallowed(p) ==
    /\ pc[p] = "write_cancelled_at"
    /\ Finish(p, CancelOk(target[p], cancelled_at[p]))
    /\ UNCHANGED <<sheet, clock, req, cols, values, target, cancelled_at, createResp,
                   appended, cancelWrites, okLog, okCount>>

cancel_write_cancelled_at_fail(p) ==
    /\ pc[p] = "write_cancelled_at"
    /\ Finish(p, HTTPException(502, "Failed to update Google Sheet", Empty))
    /\ UNCHANGED <<sheet, clock, req, cols, values, target, cancelled_at, createResp,
                   appended, cancelWrites, okLog, okCount>>

\* The response is sent; the slot is free for the next request.
cancel_return(p) ==
    /\ pc[p] = "done"
    /\ pc' = [pc EXCEPT ![p] = "idle"]
    /\ req' = [req EXCEPT ![p] = NoRequest]
    /\ cols' = [cols EXCEPT ![p] = NoCols]
    /\ values' = [values EXCEPT ![p] = <<>>]
    /\ target' = [target EXCEPT ![p] = NoTarget]
    /\ cancelled_at' = [cancelled_at EXCEPT ![p] = Empty]
    /\ resp' = [resp EXCEPT ![p] = NoResponse]
    /\ UNCHANGED <<sheet, clock, createResp, appended, cancelWrites, okLog, okCount>>

\* The response of create_reservation is sent.
create_return ==
    /\ createResp # NoResponse
    /\ createResp' = NoResponse
    /\ UNCHANGED <<sheet, clock, pc, req, cols, values, target, cancelled_at, resp,
                   appended, cancelWrites, okLog, okCount>>

\* A minute passes.
Tick ==
    /\ Elapsed(clock) < MaxTicks
    /\ clock' = TickClock(clock)
    /\ UNCHANGED <<sheet, pc, req, cols, values, target, cancelled_at, resp, createResp,
                   appended, cancelWrites, okLog, okCount>>

AllIdle == createResp = NoResponse /\ \A p \in Procs : pc[p] = "idle"

\* Sequential execution: one request at a time, each run to its response.
Next ==
    \/ \E res \in AcceptedReservations : AllIdle /\ create_reservation(res)
    \/ \E res \in AcceptedReservations : AllIdle /\ create_reservation_fail(res)
    \/ create_return
    \/ \E p \in SerialProcs, q \in AcceptedCancelRequests : AllIdle /\ cancel_read_header(p, q)
    \/ \E p \in SerialProcs, q \in AcceptedCancelRequests : AllIdle /\ cancel_read_header_fail(p, q)
    \/ \E p \in SerialProcs : cancel_read_rows(p)
    \/ \E p \in SerialProcs : cancel_read_rows_fail(p)
    \/ \E p \in SerialProcs : cancel_write_status(p)
    \/ \E p \in SerialProcs : cancel_write_status_fail(p)
    \/ \E p \in SerialProcs : cancel_write_cancelled_at(p)
    \/ \E p \in SerialProcs : cancel_write_cancelled_at_fail(p)
    \/ \E p \in SerialProcs : cancel_return(p)
    \/ Tick

Spec == Init /\ [][Next]_vars


(***************************************************************************)
(* Sheets whose header is not in the order create_reservation writes.      *)
(***************************************************************************)
\* The canonical order with padded names and a blank trailing header cell.
HeaderPadded ==
    << <<" ", "d", "a", "t", "e">>, cTime, cPartySize, cName, <<"p", "h", "o", "n", "e", " ">>, cNotes, cCreatedAt,
       <<" ", "s", "t", "a", "t", "u", "s", " ">>, cCancelledAt, Blank >>

\* status and cancelled_at first.
HeaderMoved ==
    <<cStatus, cCancelledAt, cDate, cTime, cPartySize, cName, cPhone, cNotes, cCreatedAt>>

\* No phone column.
HeaderNoPhone ==
    <<cDate, cTime, cPartySize, cName, cNotes, cCreatedAt, cStatus, cCancelledAt>>

\* Each with one row entered under that header before the service started.
LayoutSheets ==
    { << HeaderPadded, Row(D1, T1, Kim, PhoneDashed, TsOld, CONFIRMED, Empty) >>,
      << HeaderMoved, <<CONFIRMED, Empty, D1, T1, Two, Kim, PhoneDashed, Empty, TsOld>> >>,
      << HeaderNoPhone, <<D1, T1, Two, Kim, Empty, TsOld, CONFIRMED, Empty>> >> }

InitHdr ==
    /\ sheet \in LayoutSheets
    /\ InitLocals

SpecHdr == InitHdr /\ [][Next]_vars

(***************************************************************************)
(* Concurrent execution: the server runs the handlers in a thread pool, so *)
(* two cancel_reservation calls and create_reservation interleave at their *)
(* calls to the store. There is no lock.                                   *)
(***************************************************************************)
\* One reservation is stored at the start; create_reservation adds others
\* with the same date, time and phone.
ConcRows == { << Row(D1, T1, Kim, PhoneDashed, TsOld, CONFIRMED, Empty) >> }

\* The cancel requests posted concurrently: that key, with and without a name.
ConcRequests ==
    {q \in AcceptedCancelRequests :
        q.phone = PhoneSpaced /\ q.name \in {None, Some(KimPadded)}}

\* The reservations posted concurrently: another guest with that key.
ConcReservations == {res \in AcceptedReservations : res.name = Lee}

InitConc ==
    /\ sheet \in {<<HeaderCanonical>> \o rows : rows \in ConcRows}
    /\ InitLocals

NextConc ==
    \/ \E res \in ConcReservations : createResp = NoResponse /\ create_reservation(res)
    \/ \E res \in ConcReservations : createResp = NoResponse /\ create_reservation_fail(res)
    \/ create_return
    \/ \E p \in Procs, q \in ConcRequests : cancel_read_header(p, q)
    \/ \E p \in Procs, q \in ConcRequests : cancel_read_header_fail(p, q)
    \/ \E p \in Procs : cancel_read_rows(p)
    \/ \E p \in Procs : cancel_read_rows_fail(p)
    \/ \E p \in Procs : cancel_write_status(p)
    \/ \E p \in Procs : cancel_write_status_fail(p)
    \/ \E p \in Procs : cancel_write_cancelled_at(p)
    \/ \E p \in Procs : cancel_write_cancelled_at_fail(p)
    \/ \E p \in Procs : cancel_return(p)
    \/ Tick

SpecConc == InitConc /\ [][NextConc]_vars

(***************************************************************************)
(* Phones as people type them: cancel requests against one stored          *)
(* reservation, over all short phone texts.                                *)
(***************************************************************************)
\* The characters of a stored phone: digits, a dash, a space.
StoredPhoneChars == {"1", "2", "-", " "}

\* The characters of a requested phone.
RequestPhoneChars == {"1", "-"}

\* The texts over chars of lo to hi characters.
Texts(chars, lo, hi) == UNION {[1..n -> chars] : n \in lo..hi}

StoredPhones == Texts(StoredPhoneChars, 0, MaxStoredPhoneLen)

PhoneRequests ==
    {q \in [date : {D1}, time : {T1}, name : {None},
            phone : Texts(RequestPhoneChars, PhoneMinLen, MaxRequestPhoneLen)] :
        ValidCancelRequest(q)}

InitPhone ==
    /\ sheet \in {<<HeaderCanonical, Row(D1, T1, Kim, ph, TsOld, CONFIRMED, Empty)>> :
                    ph \in StoredPhones}
    /\ InitLocals

NextPhone ==
    \/ \E p \in SerialProcs, q \in PhoneRequests : AllIdle /\ cancel_read_header(p, q)
    \/ \E p \in SerialProcs, q \in PhoneRequests : AllIdle /\ cancel_read_header_fail(p, q)
    \/ \E p \in SerialProcs : cancel_read_rows(p)
    \/ \E p \in SerialProcs : cancel_read_rows_fail(p)
    \/ \E p \in SerialProcs : cancel_write_status(p)
    \/ \E p \in SerialProcs : cancel_write_status_fail(p)
    \/ \E p \in SerialProcs : cancel_write_cancelled_at(p)
    \/ \E p \in SerialProcs : cancel_write_cancelled_at_fail(p)
    \/ \E p \in SerialProcs : cancel_return(p)

SpecPhone == InitPhone /\ [][NextPhone]_vars

(***************************************************************************)
(* Sheets with irregular rows entered by hand before the service started:  *)
(* duplicates with equal or unreadable created_at, and rows shorter than   *)
(* the header.                                                             *)
(***************************************************************************)
IrregularSheets ==
    { \* three duplicates, the newest created_at shared by rows 2 and 4
      << HeaderCanonical,
         Row(D1, T1, Kim, PhoneDashed, TsOld, CONFIRMED, Empty),
         Row(D1, T1, Kim, PhonePlain, TsOlder, CONFIRMED, Empty),
         Row(D1, T1, Kim, PhoneDashed, TsOld, CONFIRMED, Empty) >>,
      \* three duplicates that all parse to 1970-01-01 00:00
      << HeaderCanonical,
         Row(D1, T1, Kim, PhoneDashed, TsBad, CONFIRMED, Empty),
         Row(D1, T1, Kim, PhoneDashed, TsEpoch, CONFIRMED, Empty),
         Row(D1, T1, Kim, PhoneDashed, Blank, CONFIRMED, Empty) >>,
      \* a row that ends before its status cell
      << HeaderCanonical,
         <<D1, T1, Two, Kim, PhoneDashed>> >>,
      \* that row, and a row that ends before its cancelled_at cell
      << HeaderCanonical,
         <<D1, T1, Two, Kim, PhoneDashed, Empty, TsOld>>,
         <<D1, T1, Two, Kim, PhoneDashed, Empty, TsOlder, CONFIRMED>> >>,
      \* created_at last: a row with a valid created_at before 1970, a row
      \* that ends before its created_at cell, a row with an unreadable one
      << HeaderMoved,
         <<CONFIRMED, Empty, D1, T1, Two, Kim, PhoneDashed, Empty, Ts1969>>,
         <<CONFIRMED, Empty, D1, T1, Two, Kim, PhoneDashed>>,
         <<CONFIRMED, Empty, D1, T1, Two, Kim, PhoneDashed, Empty, TsBad>> >> }

InitLegacy ==
    /\ sheet \in IrregularSheets
    /\ InitLocals

SpecLegacy == InitLegacy /\ [][Next]_vars

(***************************************************************************)
(* Vocabulary of the properties.                                           *)
(***************************************************************************)
\* Every required column name is the (trimmed) text of some header cell.
HasRequired(sh) ==
    \A k \in DOMAIN required_cols :
        \E i \in DOMAIN sh[1] : Strip(sh[1][i]) = required_cols[k]

\* The columns the header of sh names (for a header with the required names).
HeaderCols(sh) == Columns(header_map(sh[1]))

\* The cells of row i of sh under the columns c.
StatusOf(sh, c, i) == Cell(sh[i], c.status)

CancelledAtOf(sh, c, i) == Cell(sh[i], c.cancelled_at)

NameOf(sh, c, i) == Strip(Cell(sh[i], c.name))

CreatedAtOf(sh, c, i) == Strip(Cell(sh[i], c.created_at))

\* The widest row of the two sheets.
Width(sh1, sh2) == SetMax({Len(sh1[i]) : i \in DOMAIN sh1} \cup {Len(sh2[i]) : i \in DOMAIN sh2})

\* Row i holds the same text in both sheets in every column outside skip.
SameRowExcept(sh1, sh2, i, skip) ==
    \A k \in (1..Width(sh1, sh2)) \ skip : Cell(sh1[i], k) = Cell(sh2[i], k)

\* The row reads CONFIRMED (any case, padded or not).
IsConfirmed(sh, c, i) == Upper(Strip(StatusOf(sh, c, i))) = CONFIRMED

\* The row carries the date, time and phone of request q.
HasKey(sh, c, i, q) ==
    /\ Strip(Cell(sh[i], c.date)) = Strip(q.date)
    /\ Strip(Cell(sh[i], c.time)) = Strip(q.time)
    /\ norm_phone(Cell(sh[i], c.phone)) = norm_phone(q.phone)

\* The CONFIRMED rows of sh that carry q's date, time and phone.
Matching(sh, c, q) == {i \in DataRows(sh) : IsConfirmed(sh, c, i) /\ HasKey(sh, c, i, q)}

NotFound == ApiResponse("error", "matching CONFIRMED reservation not found", Empty, Empty)

WriteFault == HTTPException(502, "Failed to update Google Sheet", Empty)

(***************************************************************************)
(* C1. Over any sequence of create and cancel calls, successful or failed, *)
(* no step deletes or moves a row or changes the header, and the only      *)
(* change a step makes to the status of a stored row is from CONFIRMED to  *)
(* CANCELLED: a CANCELLED row stays CANCELLED and no step writes CONFIRMED *)
(* to an existing row.                                                     *)
(***************************************************************************)
C1_StatusStep ==
    \/ sheet' = sheet
    \/ LET c == HeaderCols(sheet)
       IN  /\ Len(sheet') >= Len(sheet)
           /\ sheet'[1] = sheet[1]
           /\ \A i \in DataRows(sheet) :
                \/ sheet'[i] = sheet[i]
                \/ /\ SameRowExcept(sheet, sheet', i, {c.status, c.cancelled_at})
                   /\ StatusOf(sheet', c, i) # StatusOf(sheet, c, i) =>
                          IsConfirmed(sheet, c, i) /\ StatusOf(sheet', c, i) = CANCELLED
                   /\ StatusOf(sheet, c, i) = CANCELLED => StatusOf(sheet', c, i) = CANCELLED

C1_StatusOnlyConfirmedToCancelled == [][C1_StatusStep]_vars

\* A request failed after another had cancelled a row and a row was appended.
C1_Witness ==
    /\ okLog # {}
    /\ appended # {}
    /\ \E o \in okLog : StatusOf(sheet, HeaderCols(sheet), o.row) = CANCELLED
    /\ \E p \in Procs : pc[p] = "done" /\ resp[p].status # "ok"

(***************************************************************************)
(* C2. The claim as stated: whenever no request is in flight, every row    *)
(* has a non-empty cancelled_at if and only if its status is CANCELLED.    *)
(* The status write can succeed and the cancelled_at write fail.           *)
(***************************************************************************)
C2_CancelledAtIffCancelled ==
    AllIdle =>
        LET c == HeaderCols(sheet)
        IN  \A i \in DataRows(sheet) :
                (CancelledAtOf(sheet, c, i) # Empty) <=> (StatusOf(sheet, c, i) = CANCELLED)

(***************************************************************************)
(* C2 as amended: every row whose cancelled_at cell a cancel request has   *)
(* written has status CANCELLED and a non-empty cancelled_at, and so has   *)
(* every row a cancel request answered ok for.                             *)
(***************************************************************************)
C2_CancelledAtImpliesCancelled ==
    cancelWrites # {} =>
        LET c == HeaderCols(sheet)
        IN  /\ \A w \in cancelWrites :
                    w.col = "cancelled_at" =>
                        /\ StatusOf(sheet, c, w.row) = CANCELLED
                        /\ CancelledAtOf(sheet, c, w.row) # Empty
            /\ \A o \in okLog :
                    /\ StatusOf(sheet, c, o.row) = CANCELLED
                    /\ CancelledAtOf(sheet, c, o.row) # Empty

\* The cancelled_at write of a request failed after its status write.
C2_Witness ==
    \E p \in Procs :
        /\ pc[p] = "done"
        /\ resp[p] = WriteFault
        /\ StatusOf(sheet, cols[p], target[p].row) = CANCELLED
        /\ CancelledAtOf(sheet, cols[p], target[p].row) = Empty
        /\ okLog # {}


\* The name a request asks for, trimmed; empty when it gives none.
RequestName(q) == IF q.name.some THEN Strip(q.name.val) ELSE Empty

\* The rows of Matching that carry the name q asks for.
MatchingName(sh, c, q) == {i \in Matching(sh, c, q) : NameOf(sh, c, i) = RequestName(q)}

\* The successful cancel calls so far that carried q's date, time and phone.
PriorOk(q) ==
    {o \in okLog : /\ o.date = Strip(q.date)
                   /\ o.time = Strip(q.time)
                   /\ o.phone = norm_phone(q.phone)}

\* Call p has read the rows and has its response.
Answered(p) == pc[p] = "done" /\ values[p] # <<>>

\* The response is ok, or the fault of a failed cell write.
OkOrWriteFault(r) == r.status = "ok" \/ r = WriteFault

\* Since old was read, row m was cancelled with timestamp ts and nothing
\* else in the sheet changed.
OnlyCancelled(old, c, m, ts) ==
    /\ Len(sheet) = Len(old)
    /\ sheet[1] = old[1]
    /\ \A i \in DataRows(old) \ {m} : sheet[i] = old[i]
    /\ SameRowExcept(old, sheet, m, {c.status, c.cancelled_at})
    /\ StatusOf(sheet, c, m) = CANCELLED
    /\ CancelledAtOf(sheet, c, m) = ts

\* ts is a well-formed timestamp between the start of the run and now.
IsCurrentTimestamp(ts) ==
    /\ StrptimeCreatedAt(ts).ok
    /\ StrptimeCreatedAt(ts).key >= StrptimeCreatedAt(now_kst_str(ClockStart)).key
    /\ StrptimeCreatedAt(ts).key <= StrptimeCreatedAt(now_kst_str(clock)).key

(***************************************************************************)
(* C3. In a sequential execution, once a cancel request has been answered  *)
(* ok for a row, the row keeps the status CANCELLED and the cancelled_at   *)
(* that request wrote, and a later request with the same date, time and    *)
(* phone, when no other CONFIRMED row carries them, is answered "not       *)
(* found" and writes nothing.                                              *)
(***************************************************************************)
C3_Kept ==
    okLog # {} =>
        LET c == HeaderCols(sheet)
        IN  \A o \in okLog :
                /\ StatusOf(sheet, c, o.row) = CANCELLED
                /\ CancelledAtOf(sheet, c, o.row) = o.cancelled_at

C3_Step ==
    \A p \in Procs :
        ( /\ pc[p] = "read"
          /\ pc'[p] # "read"
          /\ values'[p] = sheet
          /\ PriorOk(req[p]) # {}
          /\ \A i \in Matching(sheet, cols[p], req[p]) :
                i \in {o.row : o \in PriorOk(req[p])} )
        => /\ pc'[p] = "done"
           /\ resp'[p] = NotFound
           /\ sheet' = sheet
           /\ cancelWrites' = cancelWrites

C3_RepeatedCancelNotFound == [] C3_Kept /\ [][C3_Step]_vars

\* A request was answered "not found" after an ok cancel with the same key.
C3_Witness ==
    \E p \in Procs :
        /\ Answered(p)
        /\ resp[p] = NotFound
        /\ PriorOk(req[p]) # {}

(***************************************************************************)
(* C4. When exactly one CONFIRMED row carries the request's date, time and *)
(* normalized phone, the request is answered ok (unless a cell write       *)
(* fails), and then the sheet differs from the one read in exactly the     *)
(* status cell (CANCELLED) and the cancelled_at cell (the current          *)
(* timestamp) of that row: header, other rows and other cells are as read. *)
(***************************************************************************)
C4_SingleMatchFrame ==
    \A p \in Procs :
        (Answered(p) /\ Cardinality(Matching(values[p], cols[p], req[p])) = 1) =>
            LET m == CHOOSE i \in Matching(values[p], cols[p], req[p]) : TRUE
            IN  /\ OkOrWriteFault(resp[p])
                /\ resp[p].status = "ok" =>
                    /\ OnlyCancelled(values[p], cols[p], m, resp[p].cancelled_at)
                    /\ StatusOf(values[p], cols[p], m) # CANCELLED
                    /\ IsCurrentTimestamp(resp[p].cancelled_at)

\* An ok cancel of the single match in a sheet with other data rows.
C4_Witness ==
    \E p \in Procs :
        /\ Answered(p)
        /\ resp[p].status = "ok"
        /\ Cardinality(Matching(values[p], cols[p], req[p])) = 1
        /\ Len(values[p]) >= 3

(***************************************************************************)
(* C5. When two or more CONFIRMED rows carry the request's date, time and  *)
(* normalized phone and their (trimmed) names differ pairwise: a request   *)
(* with no name, absent or blank, is answered "name required" and changes  *)
(* nothing; a request whose trimmed name is the name of one of them        *)
(* cancels that row and leaves every other row as it was.                  *)
(***************************************************************************)
C5_NameDisambiguates ==
    \A p \in Procs :
        Answered(p) =>
            LET old == values[p]
                c == cols[p]
                M == Matching(old, c, req[p])
            IN  ( /\ Cardinality(M) >= 2
                  /\ \A i, j \in M : i # j => NameOf(old, c, i) # NameOf(old, c, j) )
                => /\ RequestName(req[p]) = Empty =>
                        /\ resp[p] = ApiResponse("error", "multiple matches found; name required",
                                                 Empty, Empty)
                        /\ sheet = old
                   /\ \A m \in M :
                        NameOf(old, c, m) = RequestName(req[p]) =>
                            /\ OkOrWriteFault(resp[p])
                            /\ \A i \in DataRows(old) \ {m} : sheet[i] = old[i]
                            /\ resp[p].status = "ok" =>
                                    OnlyCancelled(old, c, m, resp[p].cancelled_at)

\* An ok cancel by name among rows with the same key and different names.
C5_Witness ==
    \E p \in Procs :
        /\ Answered(p)
        /\ resp[p].status = "ok"
        /\ Cardinality(Matching(values[p], cols[p], req[p])) >= 2
        /\ \A i, j \in Matching(values[p], cols[p], req[p]) :
                i # j => NameOf(values[p], cols[p], i) # NameOf(values[p], cols[p], j)
        /\ MatchingName(values[p], cols[p], req[p]) # {}

(***************************************************************************)
(* C6. When several CONFIRMED rows carry the request's date, time,         *)
(* normalized phone and name, the row cancelled is one whose parsed        *)
(* created_at is the maximum among them, and the other duplicates are left *)
(* as they were.                                                           *)
(***************************************************************************)
C6_NewestDuplicate ==
    \A p \in Procs :
        Answered(p) =>
            LET old == values[p]
                c == cols[p]
                N == MatchingName(old, c, req[p])
            IN  (Cardinality(N) >= 2 /\ RequestName(req[p]) # Empty) =>
                    /\ OkOrWriteFault(resp[p])
                    /\ resp[p].status = "ok" =>
                        \E m \in N :
                            /\ OnlyCancelled(old, c, m, resp[p].cancelled_at)
                            /\ \A n \in N : parse_created_at(CreatedAtOf(old, c, n))
                                                <= parse_created_at(CreatedAtOf(old, c, m))

\* An ok cancel among duplicates whose created_at differ.
C6_Witness ==
    \E p \in Procs :
        /\ Answered(p)
        /\ resp[p].status = "ok"
        /\ RequestName(req[p]) # Empty
        /\ \E i, j \in MatchingName(values[p], cols[p], req[p]) :
                parse_created_at(CreatedAtOf(values[p], cols[p], i))
                    < parse_created_at(CreatedAtOf(values[p], cols[p], j))

(***************************************************************************)
(* C7. The claim as stated: among duplicates, a row whose created_at does  *)
(* not parse is older than every row whose created_at parses, whatever the *)
(* valid timestamp is, so it is cancelled only when no duplicate has a     *)
(* valid created_at.                                                       *)
(***************************************************************************)
C7_UnparseableIsOldest ==
    \A p \in Procs :
        (Answered(p) /\ resp[p].status = "ok") =>
            LET old == values[p]
                c == cols[p]
                N == MatchingName(old, c, req[p])
            IN  \A m \in N :
                    ( /\ StatusOf(sheet, c, m) = CANCELLED
                      /\ ~StrptimeCreatedAt(CreatedAtOf(old, c, m)).ok )
                    => \A n \in N : ~StrptimeCreatedAt(CreatedAtOf(old, c, n)).ok


\* No cancel request has written a cell of row i.
Untouched(i) == \A w \in cancelWrites : w.row # i

(***************************************************************************)
(* C8. The claim as stated: for any header that contains the required      *)
(* names, create_reservation stores each field under the column the header *)
(* names for it (status CONFIRMED, cancelled_at empty), so a cancel        *)
(* request with the date, time and phone of a row just created finds it.   *)
(***************************************************************************)
C8_CreateFollowsHeader ==
    HasRequired(sheet) =>
        LET c == HeaderCols(sheet)
        IN  /\ \A a \in appended :
                    Untouched(a.row) =>
                        /\ Cell(sheet[a.row], c.date) = a.date
                        /\ Cell(sheet[a.row], c.time) = a.time
                        /\ Cell(sheet[a.row], c.name) = a.name
                        /\ Cell(sheet[a.row], c.phone) = a.phone
                        /\ Cell(sheet[a.row], c.created_at) = a.created_at
                        /\ StatusOf(sheet, c, a.row) = CONFIRMED
                        /\ CancelledAtOf(sheet, c, a.row) = Empty
            /\ \A p \in Procs :
                    ( /\ Answered(p)
                      /\ \E a \in appended :
                            /\ a.row <= Len(values[p])
                            /\ Untouched(a.row)
                            /\ Strip(a.date) = Strip(req[p].date)
                            /\ Strip(a.time) = Strip(req[p].time)
                            /\ norm_phone(a.phone) = norm_phone(req[p].phone) )
                    => resp[p] # NotFound

(***************************************************************************)
(* C9. If the header lacks a required column name, every cancel request    *)
(* ends in a 500 fault, never in an ok or an in-payload error, before any  *)
(* row is read or any cell is written: no step of a cancel call changes    *)
(* the sheet.                                                              *)
(***************************************************************************)
C9_Faulted ==
    ~HasRequired(sheet) =>
        /\ cancelWrites = {}
        /\ okLog = {}
        /\ \A p \in Procs :
            /\ pc[p] \in {"idle", "done"}
            /\ values[p] = <<>>
            /\ pc[p] = "done" =>
                /\ resp[p].code = 500
                /\ resp[p].status = "fault"
                /\ \/ resp[p] = HTTPException(500, "Internal Server Error", Empty)
                   \/ /\ resp[p].message = "Missing column in sheet"
                      /\ \A i \in DOMAIN sheet[1] : Strip(sheet[1][i]) # resp[p].missing
                      /\ \E k \in DOMAIN required_cols : required_cols[k] = resp[p].missing

C9_Step ==
    (~HasRequired(sheet) /\ \E p \in Procs : pc'[p] # pc[p]) => sheet' = sheet

C9_MissingColumnFault == [] C9_Faulted /\ [][C9_Step]_vars

\* A cancel request answered "Missing column in sheet: phone" over stored rows.
C9_Witness ==
    \E p \in Procs :
        /\ pc[p] = "done"
        /\ ~HasRequired(sheet)
        /\ resp[p] = HTTPException(500, "Missing column in sheet", cPhone)
        /\ Len(sheet) >= 3

(***************************************************************************)
(* C10. A cancel call answers ok only if its status write and its          *)
(* cancelled_at write to the target row both succeeded; a call whose       *)
(* status or cancelled_at write failed ends in the store-write fault.      *)
(***************************************************************************)
BothWritten(p) ==
    /\ [row |-> target[p].row, col |-> "status"] \in cancelWrites
    /\ [row |-> target[p].row, col |-> "cancelled_at"] \in cancelWrites
    /\ StatusOf(sheet, cols[p], target[p].row) = CANCELLED
    /\ CancelledAtOf(sheet, cols[p], target[p].row) = cancelled_at[p]

C10_OkOnlyAfterBothWrites ==
    \A p \in Procs :
        pc[p] = "done" =>
            /\ resp[p].status = "ok" =>
                    /\ target[p].row # 0
                    /\ BothWritten(p)
                    /\ resp[p].cancelled_at = cancelled_at[p]
            /\ (target[p].row # 0 /\ ~BothWritten(p)) => resp[p] = WriteFault

\* The status write succeeded, the cancelled_at write failed: a write fault.
C10_Witness ==
    \E p \in Procs :
        /\ pc[p] = "done"
        /\ resp[p] = WriteFault
        /\ [row |-> target[p].row, col |-> "status"] \in cancelWrites
        /\ [row |-> target[p].row, col |-> "cancelled_at"] \notin cancelWrites

(***************************************************************************)
(* Vocabulary of the concurrency properties.                               *)
(***************************************************************************)
\* Call p has answered ok.
DoneOk(p) == pc[p] = "done" /\ resp[p].status = "ok"

\* The rows whose status cell a cancel request has written.
StatusWritten == {w.row : w \in {v \in cancelWrites : v.col = "status"}}

\* The whole of cancel_reservation run on sh without interruption, both
\* writes succeeding, with ts the timestamp of line 354.
CancelEffect(sh, c, q, ts) ==
    LET res == Resolve(sh, c, q)
    IN  IF res.error # "" THEN sh
        ELSE update_cell(update_cell(sh, res.target.row, c.status, CANCELLED),
                         res.target.row, c.cancelled_at, ts)

\* The sheet with the writes of calls p and q taken back: their target rows
\* as each read them.
BeforeBoth(p, q) ==
    [i \in DOMAIN sheet |->
        IF i = target[p].row THEN values[p][i]
        ELSE IF i = target[q].row THEN values[q][i]
        ELSE sheet[i]]

\* The store after call p1 and then call p2 run one after the other from
\* BeforeBoth, every row appended at the point where the calls found it.
SerialOutcome(p1, p2) ==
    LET base == BeforeBoth(p1, p2)
        n1 == Len(values[p1])
        n2 == Len(values[p2])
        s1 == CancelEffect(SubSeq(base, 1, n1), cols[p1], req[p1], cancelled_at[p1])
        s2 == CancelEffect(s1 \o SubSeq(base, n1 + 1, n2), cols[p2], req[p2], cancelled_at[p2])
    IN  s2 \o SubSeq(base, n2 + 1, Len(base))

(***************************************************************************)
(* C11. The claim as stated: for every interleaving of concurrent cancel   *)
(* requests, once all have completed the number of ok responses does not   *)
(* exceed the number of rows that changed from CONFIRMED to CANCELLED.     *)
(* Two requests that both read a row before either writes both answer ok.  *)
(***************************************************************************)
C11_OkPerRow ==
    (\A p \in Procs : pc[p] = "idle") => okCount <= Cardinality(StatusWritten)

(***************************************************************************)
(* C11 as amended: every ok response is for a row that read CONFIRMED when *)
(* the request read it and is CANCELLED with a non-empty cancelled_at from *)
(* then on; the ok responses do not exceed the rows that changed from      *)
(* CONFIRMED to CANCELLED times the number of requests served at once, and *)
(* two ok responses of requests in flight together may be for one row.     *)
(***************************************************************************)
C11_OkWasConfirmed ==
    /\ okCount <= Cardinality(Procs) * Cardinality(StatusWritten)
    /\ \A o \in okLog :
            /\ o.row \in StatusWritten
            /\ StatusOf(sheet, HeaderCols(sheet), o.row) = CANCELLED
            /\ CancelledAtOf(sheet, HeaderCols(sheet), o.row) # Empty
    /\ \A p \in Procs :
            DoneOk(p) =>
                /\ IsConfirmed(values[p], cols[p], target[p].row)
                /\ HasKey(values[p], cols[p], target[p].row, req[p])
                /\ StatusOf(sheet, cols[p], target[p].row) = CANCELLED
                /\ CancelledAtOf(sheet, cols[p], target[p].row) # Empty

\* Two requests in flight together answered ok for the same row.
C11_Witness ==
    /\ \A p \in Procs : DoneOk(p)
    /\ \A p, q \in Procs : target[p].row = target[q].row
    /\ okCount = 2
    /\ Cardinality(StatusWritten) = 1

(***************************************************************************)
(* C12. The claim as stated: a cell write to a row whose same cell another *)
(* cancel request has already written is a no-op, so after two requests    *)
(* for one row the cells hold what the first writer produced.              *)
(* The later writer stores its own timestamp in cancelled_at.              *)
(***************************************************************************)
C12_SecondWriteStep ==
    \A p \in Procs :
        ( /\ pc[p] \in {"write_status", "write_cancelled_at"}
          /\ pc'[p] # pc[p]
          /\ target[p].row \in StatusWritten
          /\ pc[p] = "write_cancelled_at" =>
                [row |-> target[p].row, col |-> "cancelled_at"] \in cancelWrites )
        => sheet' = sheet

C12_SecondWriteNoOp == [][C12_SecondWriteStep]_vars

(***************************************************************************)
(* C12 as amended: when two concurrent cancel requests answer ok for the   *)
(* same row, the row's status is CANCELLED, its other cells are as read,   *)
(* and its cancelled_at is the timestamp of one of the two requests: each  *)
(* successful cancelled_at write stores the writer's own timestamp, so the *)
(* cell holds that of the request that wrote it last.                      *)
(***************************************************************************)
C12_SameRow ==
    \A p, q \in Procs :
        (p # q /\ DoneOk(p) /\ DoneOk(q) /\ target[p].row = target[q].row) =>
            /\ StatusOf(sheet, cols[p], target[p].row) = CANCELLED
            /\ CancelledAtOf(sheet, cols[p], target[p].row) \in {cancelled_at[p], cancelled_at[q]}
            /\ SameRowExcept(values[p], sheet, target[p].row,
                             {cols[p].status, cols[p].cancelled_at})

C12_LastWriteStep ==
    \A p \in Procs :
        /\ (pc[p] = "write_cancelled_at" /\ DoneOk(p)') =>
                /\ CancelledAtOf(sheet', cols[p], target[p].row) = cancelled_at[p]
                /\ StatusOf(sheet', cols[p], target[p].row)
                        = StatusOf(sheet, cols[p], target[p].row)
        /\ ( /\ pc[p] = "write_status" /\ pc'[p] = "write_cancelled_at"
              /\ StatusOf(sheet, cols[p], target[p].row) = CANCELLED )
            => sheet' = sheet

C12_LastWriterWins == [] C12_SameRow /\ [][C12_LastWriteStep]_vars

\* Both answered ok for one row, with timestamps a minute apart.
C12_Witness ==
    \E p, q \in Procs :
        /\ p # q /\ DoneOk(p) /\ DoneOk(q)
        /\ target[p].row = target[q].row
        /\ cancelled_at[p] # cancelled_at[q]
        /\ CancelledAtOf(sheet, cols[p], target[p].row) = cancelled_at[q]

(***************************************************************************)
(* C13. When two concurrent cancel requests resolve to different rows and  *)
(* are the only requests to have written or answered ok, then for every    *)
(* interleaving of their reads and writes and of appends: both rows end    *)
(* CANCELLED with the request's own non-empty cancelled_at, every other    *)
(* row either read is as it was read, and the sheet is the one that        *)
(* results when the two requests run one after the other.                  *)
(***************************************************************************)
C13_DifferentRows ==
    \A p, q \in Procs :
        ( /\ p # q /\ DoneOk(p) /\ DoneOk(q)
          /\ target[p].row # target[q].row
          /\ okCount = 2
          /\ \A w \in cancelWrites : w.row \in {target[p].row, target[q].row} )
        => /\ \A r \in {p, q} :
                /\ StatusOf(sheet, cols[r], target[r].row) = CANCELLED
                /\ CancelledAtOf(sheet, cols[r], target[r].row) = cancelled_at[r]
                /\ cancelled_at[r] # Empty
                /\ SameRowExcept(values[r], sheet, target[r].row,
                                 {cols[r].status, cols[r].cancelled_at})
                /\ \A i \in DataRows(values[r]) \ {target[p].row, target[q].row} :
                        sheet[i] = values[r][i]
           /\ Len(sheet) >= Len(values[p]) /\ Len(sheet) >= Len(values[q])
           /\ sheet[1] = values[p][1]
           /\ \/ Len(values[p]) <= Len(values[q]) /\ sheet = SerialOutcome(p, q)
              \/ Len(values[q]) <= Len(values[p]) /\ sheet = SerialOutcome(q, p)

\* Both answered ok for different rows, a row appended between their reads.
C13_Witness ==
    \E p, q \in Procs :
        /\ p # q /\ DoneOk(p) /\ DoneOk(q)
        /\ target[p].row # target[q].row
        /\ okCount = 2
        /\ \A w \in cancelWrites : w.row \in {target[p].row, target[q].row}
        /\ Len(values[p]) < Len(values[q])

(***************************************************************************)
(* C14. For every stored phone a and request phone b with the same digits  *)
(* in the same order (they differ only in non-digit characters), the       *)
(* normalized forms are equal and the primary filter takes the row, when   *)
(* it is CONFIRMED with the request's date and time, as matching; and when *)
(* one of the two normalizes to the empty text and the other does not, the *)
(* row does not match.                                                     *)
(***************************************************************************)
\* The digits of a text, in order.
DigitsOf(v) == SelectSeq(v, IsDigit)

C14_PhoneFormatIgnored ==
    \A p \in Procs :
        (Answered(p) /\ Len(values[p]) = 2) =>
            LET a == Cell(values[p][2], cols[p].phone)
                b == req[p].phone
                live == /\ IsConfirmed(values[p], cols[p], 2)
                        /\ Strip(Cell(values[p][2], cols[p].date)) = Strip(req[p].date)
                        /\ Strip(Cell(values[p][2], cols[p].time)) = Strip(req[p].time)
            IN  /\ DigitsOf(a) = DigitsOf(b) =>
                    /\ norm_phone(a) = norm_phone(b)
                    /\ live => (target[p].row = 2 /\ OkOrWriteFault(resp[p]))
                /\ DigitsOf(a) # DigitsOf(b) =>
                    /\ norm_phone(a) # norm_phone(b)
                    /\ resp[p] = NotFound
                /\ ((DigitsOf(a) = Empty) # (DigitsOf(b) = Empty)) => resp[p] = NotFound

\* An ok cancel where the stored and the requested phone are formatted
\* differently.
C14_Witness ==
    \E p \in Procs :
        /\ Answered(p)
        /\ resp[p].status = "ok"
        /\ Cell(values[p][2], cols[p].phone) # req[p].phone
        /\ norm_phone(req[p].phone) # req[p].phone
        /\ norm_phone(Cell(values[p][2], cols[p].phone)) # Cell(values[p][2], cols[p].phone)
        /\ norm_phone(req[p].phone) # Empty

(***************************************************************************)
(* C15. A cancel request that ends in a business error (no data rows, no   *)
(* matching CONFIRMED row, several matches and no name, several matches    *)
(* and a name none of them carries) or in a fault of the header read or    *)
(* the rows read has no target and writes no cell: no step of it changes   *)
(* the sheet, and the sheet after it is the sheet it read.                 *)
(***************************************************************************)
NoData == ApiResponse("error", "no reservation data", Empty, Empty)

NameRequired == ApiResponse("error", "multiple matches found; name required", Empty, Empty)

NameMismatch == ApiResponse("error", "multiple matches found; name mismatch", Empty, Empty)

ReadFault == HTTPException(502, "Failed to read Google Sheet", Empty)

\* The error the request of call p must end in, given the rows it read;
\* NoResponse when it has a row to cancel.
ExpectedError(p) ==
    LET M == Matching(values[p], cols[p], req[p])
    IN  IF Len(values[p]) < 2 THEN NoData
        ELSE IF M = {} THEN NotFound
        ELSE IF Cardinality(M) = 1 THEN NoResponse
        ELSE IF RequestName(req[p]) = Empty THEN NameRequired
        ELSE IF MatchingName(values[p], cols[p], req[p]) = {} THEN NameMismatch
        ELSE NoResponse

C15_ErrorState ==
    \A p \in Procs :
        pc[p] = "done" =>
            /\ (values[p] # <<>> /\ ExpectedError(p) # NoResponse) =>
                    /\ resp[p] = ExpectedError(p)
                    /\ sheet = values[p]
            /\ (resp[p].status = "error" \/ (resp[p].status = "fault" /\ resp[p] # WriteFault)) =>
                    /\ target[p].row = 0
                    /\ cancelled_at[p] = Empty
                    /\ values[p] # <<>> => sheet = values[p]
                    /\ values[p] = <<>> => resp[p].status = "fault"
                    /\ resp[p].status = "error" => resp[p] = ExpectedError(p)

C15_ErrorStep ==
    \A p \in Procs :
        ( /\ pc'[p] = "done" /\ pc[p] # "done"
          /\ resp'[p].status = "error" \/ (resp'[p].status = "fault" /\ resp'[p] # WriteFault) )
        => /\ sheet' = sheet
           /\ cancelWrites' = cancelWrites

C15_ErrorsWriteNothing == [] C15_ErrorState /\ [][C15_ErrorStep]_vars

\* A request answered "name mismatch" over duplicates.
C15_Witness ==
    \E p \in Procs :
        /\ Answered(p)
        /\ resp[p] = NameMismatch
        /\ Cardinality(Matching(values[p], cols[p], req[p])) >= 2

(***************************************************************************)
(* C16. When exactly one row passes the primary filter, the request        *)
(* selects and cancels it whatever its name field holds (absent, blank,    *)
(* the stored name, another name): it is never answered "name required" or *)
(* "name mismatch"; those answers occur only with two or more candidates.  *)
(***************************************************************************)
C16_SingleIgnoresName ==
    \A p \in Procs :
        Answered(p) =>
            LET M == Matching(values[p], cols[p], req[p])
            IN  /\ Cardinality(M) = 1 =>
                    /\ target[p].row \in M
                    /\ OkOrWriteFault(resp[p])
                    /\ resp[p].status = "ok" => StatusOf(sheet, cols[p], target[p].row) = CANCELLED
                /\ resp[p] \in {NameRequired, NameMismatch} => Cardinality(M) >= 2

\* An ok cancel of the single candidate by a request naming someone else.
C16_Witness ==
    \E p \in Procs :
        /\ Answered(p)
        /\ resp[p].status = "ok"
        /\ Cardinality(Matching(values[p], cols[p], req[p])) = 1
        /\ RequestName(req[p]) # Empty
        /\ NameOf(values[p], cols[p], target[p].row) # RequestName(req[p])

(***************************************************************************)
(* C17. Among several rows that carry the request's date, time, phone and  *)
(* name, the target is the row of smallest sheet position among those      *)
(* whose parsed created_at is the greatest, rows that fell back to the     *)
(* 1970 value included; the target is a function of the rows read and the  *)
(* request.                                                                *)
(***************************************************************************)
\* Call p has resolved a target.
HasTarget(p) == target[p].row # 0

\* The rows of N whose parsed created_at is the greatest in N.
Newest(vals, c, N) ==
    {m \in N : \A n \in N : parse_created_at(CreatedAtOf(vals, c, n))
                                <= parse_created_at(CreatedAtOf(vals, c, m))}

C17_FirstOfNewest ==
    \A p \in Procs :
        HasTarget(p) =>
            LET N == MatchingName(values[p], cols[p], req[p])
            IN  ( /\ Cardinality(Matching(values[p], cols[p], req[p])) >= 2
                  /\ RequestName(req[p]) # Empty )
                => /\ target[p].row \in Newest(values[p], cols[p], N)
                   /\ \A m \in Newest(values[p], cols[p], N) : target[p].row <= m
                   /\ target[p] = Resolve(values[p], cols[p], req[p]).target

\* An ok cancel among duplicates that share the greatest created_at, at
\* least two of them by falling back to 1970.
C17_Witness ==
    \E p \in Procs :
        /\ Answered(p)
        /\ resp[p].status = "ok"
        /\ RequestName(req[p]) # Empty
        /\ \E i, j \in Newest(values[p], cols[p], MatchingName(values[p], cols[p], req[p])) :
                /\ i < j
                /\ target[p].row = i
                /\ ~StrptimeCreatedAt(CreatedAtOf(values[p], cols[p], i)).ok
                /\ ~StrptimeCreatedAt(CreatedAtOf(values[p], cols[p], j)).ok

(***************************************************************************)
(* C18. A cancel request over rows shorter than the header resolves as it  *)
(* does over the same rows filled up with empty cells to the header's      *)
(* width: a row that ends before its status cell is never the target and   *)
(* is never written, and a row that ends before its created_at cell is     *)
(* placed like a row whose created_at does not parse.                      *)
(***************************************************************************)
\* The sheet with every data row filled up to the header's width.
Padded(vals) ==
    [i \in DOMAIN vals |->
        IF i = 1 \/ Len(vals[i]) >= Len(vals[1]) THEN vals[i]
        ELSE vals[i] \o [k \in 1..(Len(vals[1]) - Len(vals[i])) |-> Empty]]

\* The sheet with an unreadable created_at in every row that has none.
BadCreatedAt(vals, c) ==
    [i \in DOMAIN vals |->
        IF i = 1 \/ Len(vals[i]) >= c.created_at THEN vals[i]
        ELSE [k \in 1..c.created_at |->
                IF k = c.created_at THEN TsBad
                ELSE IF k <= Len(vals[i]) THEN vals[i][k] ELSE Empty]]

\* The rows of vals that end before column k.
EndsBefore(vals, k) == {i \in DataRows(vals) : Len(vals[i]) < k}

C18_ShortRows ==
    \A p \in Procs :
        Answered(p) =>
            LET vals == values[p]
                padded == Resolve(Padded(vals), cols[p], req[p])
                bad == Resolve(BadCreatedAt(vals, cols[p]), cols[p], req[p])
            IN  /\ padded.error # "" => resp[p] = ApiResponse("error", padded.error, Empty, Empty)
                /\ padded.error = "" => (target[p] = padded.target /\ OkOrWriteFault(resp[p]))
                /\ bad.error = padded.error
                /\ bad.target.row = padded.target.row
                /\ bad.target.created_at = padded.target.created_at
                /\ \A i \in EndsBefore(vals, cols[p].status) :
                        /\ target[p].row # i
                        /\ sheet[i] = vals[i]
                /\ target[p].row \in EndsBefore(vals, cols[p].created_at) =>
                        /\ target[p].created_at = EpochKey
                        /\ resp[p].created_at = Empty

\* An ok cancel of a row that ends before its created_at cell, chosen among
\* duplicates, over a sheet with a row that ends before its status cell or
\* with a duplicate whose created_at does not parse.
C18_Witness ==
    \E p \in Procs :
        /\ Answered(p)
        /\ resp[p].status = "ok"
        /\ target[p].row \in EndsBefore(values[p], cols[p].created_at)
        /\ Cardinality(MatchingName(values[p], cols[p], req[p])) >= 2

====
